---- MODULE Spec2Model ----
(***************************************************************************)
(* Model of the ConfidentialRiskAssessment contract: the time-gated        *)
(* assessment lifecycle (start, submit, request decryption, oracle         *)
(* callback, pause) together with the encrypted-value handles, the ACL     *)
(* and the decryption requests kept by the FHE library it calls.           *)
(*                                                                         *)
(* Every external function is one action.  A call that reverts leaves the  *)
(* contract and library state as it was (EVM revert) and records the       *)
(* revert reason in lastCall.                                              *)
(***************************************************************************)
EXTENDS Integers, Sequences, FiniteSets, TLC

\* ------------------------------------------------------------------------
\* Program constants
\* ------------------------------------------------------------------------
BUSINESS_HOURS_START == 9
BUSINESS_HOURS_END == 17
MaxCreditScore == 850
MaxEmploymentYears == 50
MaxDebtRatio == 100
RiskScale == 101
SecondsPerHour == 3600
HoursPerDay == 24

\* ------------------------------------------------------------------------
\* Bounds of the model
\* ------------------------------------------------------------------------
MaxCalls == 5             \* state-changing calls that succeed in a run
MaxTicks == 2             \* later blocks considered after the deployment
MaxClockHours == 41       \* hours sampled by the time-gate specification

MaxAssessmentId == MaxCalls       \* cycle ids 1..MaxAssessmentId
MaxRequests == MaxCalls           \* decryption requests ever issued
DeployTime == BUSINESS_HOURS_START * SecondsPerHour   \* deployed at 09:00
TickStep == 12 * SecondsPerHour   \* block.timestamp advances by 12 hours
MaxTime == DeployTime + MaxTicks * TickStep

\* ------------------------------------------------------------------------
\* Principals and inputs
\* ------------------------------------------------------------------------
Deployer == "deployer"
This == "this"                       \* address(this), the contract itself
ZeroAddress == "0x0"
Addr == {Deployer, "alice"}          \* msg.sender of the calls

RandEuint8Values == {50, 255}        \* outcomes of FHE.randEuint8() drawn
\* <<_creditScore, _income, _employmentYears, _debtRatio>> of a submission:
\* the boundary values with a large income, each field one above its limit,
\* the last two above, and all three above
SubmitInputs ==
  {<<850, 2000000000, 50, 100>>, <<851, 0, 50, 100>>, <<850, 0, 51, 100>>,
   <<850, 0, 50, 101>>, <<850, 0, 51, 101>>, <<851, 2000000000, 51, 101>>}
CleartextInputs == {50, 255}         \* uint8 riskThreshold of a callback

VARIABLES
  owner,                \* address public owner
  currentAssessmentId,  \* uint32 public currentAssessmentId
  lastAssessmentTime,   \* uint256 public lastAssessmentTime
  assessments,          \* mapping(uint32 => Assessment)
  now,                  \* block.timestamp
  ciphertexts,          \* FHE library: handle h is ciphertexts[h]
  acl,                  \* FHE library: set of <<handle, principal>> grants
  requestedHandles,     \* FHE library: request r asked for requestedHandles[r]
  calls,                \* history: number of state-changing calls that succeeded
  requestAssessment,    \* history: currentAssessmentId when request r was issued
  started,              \* history: number of AssessmentStarted per cycle id
  fulfilled,            \* history: number of accepted callbacks per request
  lastCall,             \* the last call: function and "ok" or revert reason
  events,               \* events emitted by the last call
  returned              \* value returned by the last call (views)

contractVars == <<owner, currentAssessmentId, lastAssessmentTime, assessments>>
fheVars == <<ciphertexts, acl, requestedHandles>>
historyVars == <<calls, requestAssessment, started, fulfilled>>
vars == <<owner, currentAssessmentId, lastAssessmentTime, assessments, now,
          ciphertexts, acl, requestedHandles, calls, requestAssessment, started,
          fulfilled,
          lastCall, events, returned>>

\* ------------------------------------------------------------------------
\* Storage layout
\* ------------------------------------------------------------------------
EmptyProfile ==
  [encryptedCreditScore |-> 0, encryptedIncome |-> 0,
   encryptedEmploymentYears |-> 0, encryptedDebtRatio |-> 0,
   hasSubmitted |-> FALSE, timestamp |-> 0, applicant |-> ZeroAddress]

EmptyAssessment ==
  [riskThreshold |-> 0, thresholdSet |-> FALSE, assessmentCompleted |-> FALSE,
   finalRiskLevel |-> 0, startTime |-> 0, endTime |-> 0, applicants |-> <<>>,
   profiles |-> [a \in Addr |-> EmptyProfile],
   approvedApplicants |-> [a \in Addr |-> FALSE]]

Event(name, id, who, value) ==
  [name |-> name, assessmentId |-> id, applicant |-> who, value |-> value]

\* ------------------------------------------------------------------------
\* Time gate
\* ------------------------------------------------------------------------
HourOf(t) == (t \div SecondsPerHour) % HoursPerDay

\* mutant: the closing hour counted as a business hour
isBusinessHoursAt_ClosedEnd(t) ==
  HourOf(t) >= BUSINESS_HOURS_START /\ HourOf(t) <= BUSINESS_HOURS_END

isBusinessHoursAt(t) ==
  HourOf(t) >= BUSINESS_HOURS_START /\ HourOf(t) < BUSINESS_HOURS_END

isBusinessHours == isBusinessHoursAt(now)

\* mutant: a completed cycle still counts as open
isAssessmentWindowActive_IgnoresCompleted ==
  IF ~assessments[currentAssessmentId].thresholdSet THEN FALSE
  ELSE isBusinessHours

isAssessmentWindowActive ==
  IF ~assessments[currentAssessmentId].thresholdSet THEN FALSE
  ELSE IF assessments[currentAssessmentId].assessmentCompleted THEN FALSE
  ELSE isBusinessHours

\* mutant: the hour of day is not looked at
isEvaluationTimeActive_AnyHour ==
  /\ assessments[currentAssessmentId].thresholdSet
  /\ ~assessments[currentAssessmentId].assessmentCompleted

isEvaluationTimeActive ==
  /\ ~isBusinessHours
  /\ assessments[currentAssessmentId].thresholdSet
  /\ ~assessments[currentAssessmentId].assessmentCompleted

\* ------------------------------------------------------------------------
\* FHE library as the contract uses it
\* ------------------------------------------------------------------------
NewHandle == Len(ciphertexts) + 1

Encrypted(bits, plain) == [bits |-> bits, plain |-> plain]

\* mutant: the signatures are not verified
checkSignatures_AnySignature(requestId, cleartext, genuine) ==
  /\ requestId \in 1..Len(requestedHandles)
  /\ cleartext = ciphertexts[requestedHandles[requestId][1]].plain

\* FHE.checkSignatures(requestId, cleartexts, signatures): the request must
\* exist and the signatures must be the oracle's over the decryption of the
\* requested handle.  genuine = FALSE stands for any other signature bytes.
\* The check reads the request and keeps it; the contract itself stores
\* nothing about the requests it has issued or the callbacks it has taken.
checkSignatures(requestId, cleartext, genuine) ==
  /\ requestId \in 1..Len(requestedHandles)
  /\ genuine
  /\ cleartext = ciphertexts[requestedHandles[requestId][1]].plain

\* ------------------------------------------------------------------------
\* Placeholder risk score
\* ------------------------------------------------------------------------
AddrWord(a) == CASE a = Deployer -> 1 [] a = "alice" -> 2 [] OTHER -> 0

\* stand-in for uint256(keccak256(abi.encodePacked(applicant, id))): a fixed
\* function of the two packed words
Keccak256Packed(applicant, id) ==
  (AddrWord(applicant) * 7919 + id * 104729) % 65521

\* mutant: the hash is cut to uint8 without the reduction to the 0-100 scale
simulatedRisk_NoScale(applicant, id) == Keccak256Packed(applicant, id) % 256

simulatedRisk(applicant, id) == Keccak256Packed(applicant, id) % RiskScale

\* mutant: block.timestamp is mixed into the hashed value
_calculateRiskScore_UsesTimestamp(applicant, threshold) ==
  (Keccak256Packed(applicant, currentAssessmentId) + now) % RiskScale <= threshold

_calculateRiskScore(applicant, threshold) ==
  simulatedRisk(applicant, currentAssessmentId) <= threshold

\* the loop of _evaluateApplicants over applicants[1..n]: the approval map
\* and the running count after n iterations
RECURSIVE EvalLoop(_, _, _)
EvalLoop(assessment, riskThreshold, n) ==
  IF n = 0 THEN [approvedApplicants |-> assessment.approvedApplicants,
                 approved |-> 0]
  ELSE LET prev == EvalLoop(assessment, riskThreshold, n - 1)
           applicant == assessment.applicants[n]
       IN IF _calculateRiskScore(applicant, riskThreshold)
          THEN [approvedApplicants |->
                  [prev.approvedApplicants EXCEPT ![applicant] = TRUE],
                approved |-> prev.approved + 1]
          ELSE prev

\* mutant: every principal is evaluated, not the participant list
_evaluateApplicants_EveryPrincipal(riskThreshold) ==
  [approvedApplicants |->
     [a \in Addr |-> \/ assessments[currentAssessmentId].approvedApplicants[a]
                     \/ _calculateRiskScore(a, riskThreshold)],
   approved |-> Cardinality({a \in Addr : _calculateRiskScore(a, riskThreshold)})]

_evaluateApplicants(riskThreshold) ==
  EvalLoop(assessments[currentAssessmentId], riskThreshold,
           Len(assessments[currentAssessmentId].applicants))

\* ------------------------------------------------------------------------
\* Initial state: after the constructor
\* ------------------------------------------------------------------------
Init ==
  /\ owner = Deployer
  /\ currentAssessmentId = 1
  /\ now = DeployTime
  /\ lastAssessmentTime = DeployTime
  /\ assessments = [id \in 1..MaxAssessmentId |-> EmptyAssessment]
  /\ ciphertexts = <<>>
  /\ acl = {}
  /\ requestedHandles = <<>>
  /\ calls = 0
  /\ requestAssessment = <<>>
  /\ started = [id \in 1..MaxAssessmentId |-> 0]
  /\ fulfilled = [r \in 1..MaxRequests |-> 0]
  /\ lastCall = [op |-> "constructor", result |-> "ok"]
  /\ events = <<>>
  /\ returned = 0

\* ------------------------------------------------------------------------
\* Calls
\* ------------------------------------------------------------------------
Revert(op, reason) ==
  /\ lastCall' = [op |-> op, result |-> reason]
  /\ events' = <<>>
  /\ returned' = 0
  /\ UNCHANGED <<contractVars, fheVars, historyVars, now>>

Return(op, emitted) ==
  /\ calls < MaxCalls
  /\ calls' = calls + 1
  /\ lastCall' = [op |-> op, result |-> "ok"]
  /\ events' = emitted
  /\ returned' = 0

\* mutant: the require on the current cycle is missing
NoActiveAssessment_Unchecked == TRUE

\* require(!thresholdSet || assessmentCompleted, "Assessment already active")
NoActiveAssessment ==
  \/ ~assessments[currentAssessmentId].thresholdSet
  \/ assessments[currentAssessmentId].assessmentCompleted

\* mutant: the hour is checked before the caller
startNewAssessment_HoursFirst(sender) ==
  IF ~isBusinessHours
    THEN Revert("startNewAssessment", "Not during business hours")
  ELSE IF sender # owner THEN Revert("startNewAssessment", "Not authorized")
  ELSE IF ~NoActiveAssessment
    THEN Revert("startNewAssessment", "Assessment already active")
  ELSE
    /\ started' = [started EXCEPT ![currentAssessmentId] = @ + 1]
    /\ \E rand \in RandEuint8Values :
         ciphertexts' = Append(ciphertexts, Encrypted(8, rand))
    /\ assessments' = [assessments EXCEPT ![currentAssessmentId] =
         [@ EXCEPT !.riskThreshold = NewHandle,
                   !.thresholdSet = TRUE,
                   !.assessmentCompleted = FALSE,
                   !.startTime = now,
                   !.applicants = <<>>]]
    /\ acl' = acl \cup {<<NewHandle, This>>}
    /\ Return("startNewAssessment",
              <<Event("AssessmentStarted", currentAssessmentId, ZeroAddress, now)>>)
    /\ UNCHANGED <<owner, currentAssessmentId, lastAssessmentTime, now,
                   requestedHandles, requestAssessment, fulfilled>>

\* mutant: FHE.allowThis(riskThreshold) is missing
startNewAssessment_NoGrant(sender) ==
  IF sender # owner THEN Revert("startNewAssessment", "Not authorized")
  ELSE IF ~isBusinessHours
    THEN Revert("startNewAssessment", "Not during business hours")
  ELSE IF ~NoActiveAssessment
    THEN Revert("startNewAssessment", "Assessment already active")
  ELSE
    /\ started' = [started EXCEPT ![currentAssessmentId] = @ + 1]
    /\ \E rand \in RandEuint8Values :
         ciphertexts' = Append(ciphertexts, Encrypted(8, rand))
    /\ assessments' = [assessments EXCEPT ![currentAssessmentId] =
         [@ EXCEPT !.riskThreshold = NewHandle,
                   !.thresholdSet = TRUE,
                   !.assessmentCompleted = FALSE,
                   !.startTime = now,
                   !.applicants = <<>>]]
    /\ Return("startNewAssessment",
              <<Event("AssessmentStarted", currentAssessmentId, ZeroAddress, now)>>)
    /\ UNCHANGED <<owner, currentAssessmentId, lastAssessmentTime, now, acl,
                   requestedHandles, requestAssessment, fulfilled>>

\* mutant: the participant list of the record is not reset
startNewAssessment_KeepsApplicants(sender) ==
  IF sender # owner THEN Revert("startNewAssessment", "Not authorized")
  ELSE IF ~isBusinessHours
    THEN Revert("startNewAssessment", "Not during business hours")
  ELSE IF ~NoActiveAssessment
    THEN Revert("startNewAssessment", "Assessment already active")
  ELSE
    /\ started' = [started EXCEPT ![currentAssessmentId] = @ + 1]
    /\ \E rand \in RandEuint8Values :
         ciphertexts' = Append(ciphertexts, Encrypted(8, rand))
    /\ assessments' = [assessments EXCEPT ![currentAssessmentId] =
         [@ EXCEPT !.riskThreshold = NewHandle,
                   !.thresholdSet = TRUE,
                   !.assessmentCompleted = FALSE,
                   !.startTime = now]]
    /\ acl' = acl \cup {<<NewHandle, This>>}
    /\ Return("startNewAssessment",
              <<Event("AssessmentStarted", currentAssessmentId, ZeroAddress, now)>>)
    /\ UNCHANGED <<owner, currentAssessmentId, lastAssessmentTime, now,
                   requestedHandles, requestAssessment, fulfilled>>

startNewAssessment(sender) ==
  IF sender # owner THEN Revert("startNewAssessment", "Not authorized")
  ELSE IF ~isBusinessHours
    THEN Revert("startNewAssessment", "Not during business hours")
  ELSE IF ~NoActiveAssessment
    THEN Revert("startNewAssessment", "Assessment already active")
  ELSE
    /\ started' = [started EXCEPT ![currentAssessmentId] = @ + 1]
    /\ \E rand \in RandEuint8Values :
         ciphertexts' = Append(ciphertexts, Encrypted(8, rand))
    /\ assessments' = [assessments EXCEPT ![currentAssessmentId] =
         [@ EXCEPT !.riskThreshold = NewHandle,
                   !.thresholdSet = TRUE,
                   !.assessmentCompleted = FALSE,
                   !.startTime = now,
                   !.applicants = <<>>]]
    /\ acl' = acl \cup {<<NewHandle, This>>}
    /\ Return("startNewAssessment",
              <<Event("AssessmentStarted", currentAssessmentId, ZeroAddress, now)>>)
    /\ UNCHANGED <<owner, currentAssessmentId, lastAssessmentTime, now,
                   requestedHandles, requestAssessment, fulfilled>>

\* mutant: the limit itself is rejected
ValidDebtRatio_Strict(_debtRatio) == _debtRatio < MaxDebtRatio

\* require(_debtRatio <= 100, "Invalid debt ratio")
ValidDebtRatio(_debtRatio) == _debtRatio <= MaxDebtRatio

\* mutant: the submitted flag is not looked at
AlreadySubmitted_Unchecked(sender) == FALSE

\* the flag tested by require(!...hasSubmitted, "Profile already submitted")
AlreadySubmitted(sender) ==
  assessments[currentAssessmentId].profiles[sender].hasSubmitted

\* mutant: the submission time is not recorded
submitRiskProfile_NoTimestamp(sender, _creditScore, _income, _employmentYears, _debtRatio) ==
  IF ~isAssessmentWindowActive
    THEN Revert("submitRiskProfile", "Assessment window not active")
  ELSE IF ~(_creditScore <= MaxCreditScore)
    THEN Revert("submitRiskProfile", "Invalid credit score")
  ELSE IF ~(_employmentYears <= MaxEmploymentYears)
    THEN Revert("submitRiskProfile", "Invalid employment years")
  ELSE IF ~ValidDebtRatio(_debtRatio)
    THEN Revert("submitRiskProfile", "Invalid debt ratio")
  ELSE IF AlreadySubmitted(sender)
    THEN Revert("submitRiskProfile", "Profile already submitted")
  ELSE
    LET h == NewHandle IN
    /\ ciphertexts' = ciphertexts \o
         <<Encrypted(16, _creditScore), Encrypted(32, _income),
           Encrypted(8, _employmentYears), Encrypted(16, _debtRatio)>>
    /\ assessments' = [assessments EXCEPT ![currentAssessmentId] =
         [@ EXCEPT !.profiles[sender] =
                     [encryptedCreditScore |-> h,
                      encryptedIncome |-> h + 1,
                      encryptedEmploymentYears |-> h + 2,
                      encryptedDebtRatio |-> h + 3,
                      hasSubmitted |-> TRUE,
                      timestamp |-> 0,
                      applicant |-> sender],
                   !.applicants = Append(@, sender)]]
    /\ acl' = acl \cup {<<h + i, p>> : i \in 0..3, p \in {This, sender}}
    /\ Return("submitRiskProfile",
              <<Event("ProfileSubmitted", currentAssessmentId, sender, 0)>>)
    /\ UNCHANGED <<owner, currentAssessmentId, lastAssessmentTime, now,
                   requestedHandles, requestAssessment, started, fulfilled>>

submitRiskProfile(sender, _creditScore, _income, _employmentYears, _debtRatio) ==
  IF ~isAssessmentWindowActive
    THEN Revert("submitRiskProfile", "Assessment window not active")
  ELSE IF ~(_creditScore <= MaxCreditScore)
    THEN Revert("submitRiskProfile", "Invalid credit score")
  ELSE IF ~(_employmentYears <= MaxEmploymentYears)
    THEN Revert("submitRiskProfile", "Invalid employment years")
  ELSE IF ~ValidDebtRatio(_debtRatio)
    THEN Revert("submitRiskProfile", "Invalid debt ratio")
  ELSE IF AlreadySubmitted(sender)
    THEN Revert("submitRiskProfile", "Profile already submitted")
  ELSE
    LET h == NewHandle IN
    /\ ciphertexts' = ciphertexts \o
         <<Encrypted(16, _creditScore), Encrypted(32, _income),
           Encrypted(8, _employmentYears), Encrypted(16, _debtRatio)>>
    /\ assessments' = [assessments EXCEPT ![currentAssessmentId] =
         [@ EXCEPT !.profiles[sender] =
                     [encryptedCreditScore |-> h,
                      encryptedIncome |-> h + 1,
                      encryptedEmploymentYears |-> h + 2,
                      encryptedDebtRatio |-> h + 3,
                      hasSubmitted |-> TRUE,
                      timestamp |-> now,
                      applicant |-> sender],
                   !.applicants = Append(@, sender)]]
    /\ acl' = acl \cup {<<h + i, p>> : i \in 0..3, p \in {This, sender}}
    /\ Return("submitRiskProfile",
              <<Event("ProfileSubmitted", currentAssessmentId, sender, 0)>>)
    /\ UNCHANGED <<owner, currentAssessmentId, lastAssessmentTime, now,
                   requestedHandles, requestAssessment, started, fulfilled>>

\* mutant: the request also closes the cycle
processRiskAssessment_ClosesCycle(sender) ==
  IF ~isEvaluationTimeActive
    THEN Revert("processRiskAssessment", "Not evaluation time")
  ELSE IF <<assessments[currentAssessmentId].riskThreshold, This>> \notin acl
    THEN Revert("processRiskAssessment", "SenderNotAllowed")
  ELSE
    /\ requestedHandles' = Append(requestedHandles,
                                  <<assessments[currentAssessmentId].riskThreshold>>)
    /\ requestAssessment' = Append(requestAssessment, currentAssessmentId)
    /\ assessments' = [assessments EXCEPT
                         ![currentAssessmentId].assessmentCompleted = TRUE]
    /\ Return("processRiskAssessment", <<>>)
    /\ UNCHANGED <<owner, currentAssessmentId, lastAssessmentTime, ciphertexts,
                   acl, started, fulfilled, now>>

\* mutant: the onlyDuringEvaluationTime modifier is missing
processRiskAssessment_NoTimeGate(sender) ==
  IF ~assessments[currentAssessmentId].thresholdSet
    THEN Revert("processRiskAssessment", "No threshold set")
  ELSE IF assessments[currentAssessmentId].assessmentCompleted
    THEN Revert("processRiskAssessment", "Assessment already completed")
  ELSE IF <<assessments[currentAssessmentId].riskThreshold, This>> \notin acl
    THEN Revert("processRiskAssessment", "SenderNotAllowed")
  ELSE
    /\ requestedHandles' = Append(requestedHandles,
                                  <<assessments[currentAssessmentId].riskThreshold>>)
    /\ requestAssessment' = Append(requestAssessment, currentAssessmentId)
    /\ Return("processRiskAssessment", <<>>)
    /\ UNCHANGED <<contractVars, ciphertexts, acl, started, fulfilled, now>>

processRiskAssessment(sender) ==
  IF ~isEvaluationTimeActive
    THEN Revert("processRiskAssessment", "Not evaluation time")
  ELSE IF ~assessments[currentAssessmentId].thresholdSet
    THEN Revert("processRiskAssessment", "No threshold set")
  ELSE IF assessments[currentAssessmentId].assessmentCompleted
    THEN Revert("processRiskAssessment", "Assessment already completed")
  ELSE IF <<assessments[currentAssessmentId].riskThreshold, This>> \notin acl
    THEN Revert("processRiskAssessment", "SenderNotAllowed")
  ELSE
    /\ requestedHandles' = Append(requestedHandles,
                                  <<assessments[currentAssessmentId].riskThreshold>>)
    /\ requestAssessment' = Append(requestAssessment, currentAssessmentId)
    /\ Return("processRiskAssessment", <<>>)
    /\ UNCHANGED <<contractVars, ciphertexts, acl, started, fulfilled, now>>

\* mutant: the cycle id is advanced before the events are emitted
processAssessmentResult_EmitsNextId(requestId, riskThreshold, genuine) ==
  IF ~checkSignatures(requestId, riskThreshold, genuine)
    THEN Revert("processAssessmentResult", "InvalidKMSSignatures")
  ELSE
    LET result == _evaluateApplicants(riskThreshold) IN
    /\ currentAssessmentId < MaxAssessmentId
    /\ assessments' = [assessments EXCEPT ![currentAssessmentId] =
         [@ EXCEPT !.finalRiskLevel = riskThreshold,
                   !.endTime = now,
                   !.approvedApplicants = result.approvedApplicants,
                   !.assessmentCompleted = TRUE]]
    /\ currentAssessmentId' = currentAssessmentId + 1
    /\ fulfilled' = [fulfilled EXCEPT ![requestId] = @ + 1]
    /\ Return("processAssessmentResult",
              <<Event("AssessmentCompleted", currentAssessmentId + 1, ZeroAddress,
                      result.approved),
                Event("RiskLevelRevealed", currentAssessmentId + 1, ZeroAddress,
                      riskThreshold)>>)
    /\ UNCHANGED <<owner, lastAssessmentTime, now, fheVars, requestAssessment,
                   started>>

\* mutant: the cycle id is advanced by two
processAssessmentResult_SkipsId(requestId, riskThreshold, genuine) ==
  IF ~checkSignatures(requestId, riskThreshold, genuine)
    THEN Revert("processAssessmentResult", "InvalidKMSSignatures")
  ELSE
    LET result == _evaluateApplicants(riskThreshold) IN
    /\ currentAssessmentId + 1 < MaxAssessmentId
    /\ assessments' = [assessments EXCEPT ![currentAssessmentId] =
         [@ EXCEPT !.finalRiskLevel = riskThreshold,
                   !.endTime = now,
                   !.approvedApplicants = result.approvedApplicants,
                   !.assessmentCompleted = TRUE]]
    /\ currentAssessmentId' = currentAssessmentId + 2
    /\ fulfilled' = [fulfilled EXCEPT ![requestId] = @ + 1]
    /\ Return("processAssessmentResult",
              <<Event("AssessmentCompleted", currentAssessmentId, ZeroAddress,
                      result.approved),
                Event("RiskLevelRevealed", currentAssessmentId, ZeroAddress,
                      riskThreshold)>>)
    /\ UNCHANGED <<owner, lastAssessmentTime, now, fheVars, requestAssessment,
                   started>>

\* mutant: the cycle id is not advanced
processAssessmentResult_KeepsId(requestId, riskThreshold, genuine) ==
  IF ~checkSignatures(requestId, riskThreshold, genuine)
    THEN Revert("processAssessmentResult", "InvalidKMSSignatures")
  ELSE
    LET result == _evaluateApplicants(riskThreshold) IN
    /\ assessments' = [assessments EXCEPT ![currentAssessmentId] =
         [@ EXCEPT !.finalRiskLevel = riskThreshold,
                   !.endTime = now,
                   !.approvedApplicants = result.approvedApplicants,
                   !.assessmentCompleted = TRUE]]
    /\ fulfilled' = [fulfilled EXCEPT ![requestId] = @ + 1]
    /\ Return("processAssessmentResult",
              <<Event("AssessmentCompleted", currentAssessmentId, ZeroAddress,
                      result.approved),
                Event("RiskLevelRevealed", currentAssessmentId, ZeroAddress,
                      riskThreshold)>>)
    /\ UNCHANGED <<owner, currentAssessmentId, lastAssessmentTime, now, fheVars,
                   requestAssessment, started>>

\* mutant: the cycle is not marked completed before the id is advanced
processAssessmentResult_LeavesOpen(requestId, riskThreshold, genuine) ==
  IF ~checkSignatures(requestId, riskThreshold, genuine)
    THEN Revert("processAssessmentResult", "InvalidKMSSignatures")
  ELSE
    LET result == _evaluateApplicants(riskThreshold) IN
    /\ currentAssessmentId < MaxAssessmentId
    /\ assessments' = [assessments EXCEPT ![currentAssessmentId] =
         [@ EXCEPT !.finalRiskLevel = riskThreshold,
                   !.endTime = now,
                   !.approvedApplicants = result.approvedApplicants]]
    /\ currentAssessmentId' = currentAssessmentId + 1
    /\ fulfilled' = [fulfilled EXCEPT ![requestId] = @ + 1]
    /\ Return("processAssessmentResult",
              <<Event("AssessmentCompleted", currentAssessmentId, ZeroAddress,
                      result.approved),
                Event("RiskLevelRevealed", currentAssessmentId, ZeroAddress,
                      riskThreshold)>>)
    /\ UNCHANGED <<owner, lastAssessmentTime, now, fheVars, requestAssessment,
                   started>>

\* mutant: the callback refuses a cycle that nobody has entered
processAssessmentResult_RejectsEmptyCycle(requestId, riskThreshold, genuine) ==
  IF ~checkSignatures(requestId, riskThreshold, genuine)
    THEN Revert("processAssessmentResult", "InvalidKMSSignatures")
  ELSE IF Len(assessments[currentAssessmentId].applicants) = 0
    THEN Revert("processAssessmentResult", "No applicants")
  ELSE
    LET result == _evaluateApplicants(riskThreshold) IN
    /\ currentAssessmentId < MaxAssessmentId
    /\ assessments' = [assessments EXCEPT ![currentAssessmentId] =
         [@ EXCEPT !.finalRiskLevel = riskThreshold,
                   !.endTime = now,
                   !.approvedApplicants = result.approvedApplicants,
                   !.assessmentCompleted = TRUE]]
    /\ currentAssessmentId' = currentAssessmentId + 1
    /\ fulfilled' = [fulfilled EXCEPT ![requestId] = @ + 1]
    /\ Return("processAssessmentResult",
              <<Event("AssessmentCompleted", currentAssessmentId, ZeroAddress,
                      result.approved),
                Event("RiskLevelRevealed", currentAssessmentId, ZeroAddress,
                      riskThreshold)>>)
    /\ UNCHANGED <<owner, lastAssessmentTime, now, fheVars, requestAssessment,
                   started>>

processAssessmentResult(requestId, riskThreshold, genuine) ==
  IF ~checkSignatures(requestId, riskThreshold, genuine)
    THEN Revert("processAssessmentResult", "InvalidKMSSignatures")
  ELSE
    LET result == _evaluateApplicants(riskThreshold) IN
    /\ currentAssessmentId < MaxAssessmentId
    /\ assessments' = [assessments EXCEPT ![currentAssessmentId] =
         [@ EXCEPT !.finalRiskLevel = riskThreshold,
                   !.endTime = now,
                   !.approvedApplicants = result.approvedApplicants,
                   !.assessmentCompleted = TRUE]]
    /\ currentAssessmentId' = currentAssessmentId + 1
    /\ fulfilled' = [fulfilled EXCEPT ![requestId] = @ + 1]
    /\ Return("processAssessmentResult",
              <<Event("AssessmentCompleted", currentAssessmentId, ZeroAddress,
                      result.approved),
                Event("RiskLevelRevealed", currentAssessmentId, ZeroAddress,
                      riskThreshold)>>)
    /\ UNCHANGED <<owner, lastAssessmentTime, now, fheVars, requestAssessment,
                   started>>

\* mutant: the pause withdraws the contract's grant on the threshold
pauseCurrentAssessment_RevokesThreshold(sender) ==
  IF sender # owner THEN Revert("pauseCurrentAssessment", "Not authorized")
  ELSE
    /\ assessments' = [assessments EXCEPT ![currentAssessmentId] =
         [@ EXCEPT !.assessmentCompleted = TRUE, !.endTime = now]]
    /\ acl' = acl \ {<<assessments[currentAssessmentId].riskThreshold, This>>}
    /\ Return("pauseCurrentAssessment", <<>>)
    /\ UNCHANGED <<owner, currentAssessmentId, lastAssessmentTime, now,
                   ciphertexts, requestedHandles, requestAssessment, started,
                   fulfilled>>

\* mutant: the pause also moves on to the next cycle id
pauseCurrentAssessment_AdvancesId(sender) ==
  IF sender # owner THEN Revert("pauseCurrentAssessment", "Not authorized")
  ELSE
    /\ currentAssessmentId < MaxAssessmentId
    /\ assessments' = [assessments EXCEPT ![currentAssessmentId] =
         [@ EXCEPT !.assessmentCompleted = TRUE, !.endTime = now]]
    /\ currentAssessmentId' = currentAssessmentId + 1
    /\ Return("pauseCurrentAssessment", <<>>)
    /\ UNCHANGED <<owner, lastAssessmentTime, now,
                   fheVars, requestAssessment, started, fulfilled>>

\* mutant: the cycle is marked before the caller is checked and the failure
\* does not undo it
pauseCurrentAssessment_MarksBeforeCheck(sender) ==
  /\ assessments' = [assessments EXCEPT ![currentAssessmentId] =
       [@ EXCEPT !.assessmentCompleted = TRUE, !.endTime = now]]
  /\ IF sender # owner
       THEN /\ lastCall' = [op |-> "pauseCurrentAssessment", result |-> "Not authorized"]
            /\ events' = <<>>
            /\ returned' = 0
            /\ calls' = calls
       ELSE Return("pauseCurrentAssessment", <<>>)
  /\ UNCHANGED <<owner, currentAssessmentId, lastAssessmentTime, now,
                 fheVars, requestAssessment, started, fulfilled>>

\* mutant: the end time is not stamped
pauseCurrentAssessment_KeepsEndTime(sender) ==
  IF sender # owner THEN Revert("pauseCurrentAssessment", "Not authorized")
  ELSE
    /\ assessments' = [assessments EXCEPT ![currentAssessmentId] =
         [@ EXCEPT !.assessmentCompleted = TRUE]]
    /\ Return("pauseCurrentAssessment", <<>>)
    /\ UNCHANGED <<owner, currentAssessmentId, lastAssessmentTime, now,
                   fheVars, requestAssessment, started, fulfilled>>

\* mutant: the onlyOwner modifier is missing
pauseCurrentAssessment_AnyCaller(sender) ==
  /\ assessments' = [assessments EXCEPT ![currentAssessmentId] =
       [@ EXCEPT !.assessmentCompleted = TRUE, !.endTime = now]]
  /\ Return("pauseCurrentAssessment", <<>>)
  /\ UNCHANGED <<owner, currentAssessmentId, lastAssessmentTime, now,
                 fheVars, requestAssessment, started, fulfilled>>

pauseCurrentAssessment(sender) ==
  IF sender # owner THEN Revert("pauseCurrentAssessment", "Not authorized")
  ELSE
    /\ assessments' = [assessments EXCEPT ![currentAssessmentId] =
         [@ EXCEPT !.assessmentCompleted = TRUE, !.endTime = now]]
    /\ Return("pauseCurrentAssessment", <<>>)
    /\ UNCHANGED <<owner, currentAssessmentId, lastAssessmentTime, now,
                   fheVars, requestAssessment, started, fulfilled>>

\* mutant: the require on the completed flag is missing
checkApprovalStatus_NoRequire(assessmentId, applicant) ==
  /\ lastCall' = [op |-> "checkApprovalStatus", result |-> "ok"]
  /\ events' = <<>>
  /\ returned' = assessments[assessmentId].approvedApplicants[applicant]
  /\ UNCHANGED <<contractVars, fheVars, historyVars, now>>

\* view: reverts or returns the flag, and writes nothing
checkApprovalStatus(assessmentId, applicant) ==
  IF ~assessments[assessmentId].assessmentCompleted
    THEN Revert("checkApprovalStatus", "Assessment not completed")
  ELSE
    /\ lastCall' = [op |-> "checkApprovalStatus", result |-> "ok"]
    /\ events' = <<>>
    /\ returned' = assessments[assessmentId].approvedApplicants[applicant]
    /\ UNCHANGED <<contractVars, fheVars, historyVars, now>>

\* mutant: the status is read from the cycle before the current one
getApplicantStatus_PreviousCycle(applicant) ==
  LET id == IF currentAssessmentId > 1 THEN currentAssessmentId - 1 ELSE 1 IN
  /\ lastCall' = [op |-> "getApplicantStatus", result |-> "ok"]
  /\ events' = <<>>
  /\ returned' =
       <<assessments[id].profiles[applicant].hasSubmitted,
         assessments[id].profiles[applicant].timestamp,
         assessments[id].approvedApplicants[applicant]>>
  /\ UNCHANGED <<contractVars, fheVars, historyVars, now>>

\* view: <<hasSubmitted, timestamp, isApproved>> of the current cycle
getApplicantStatus(applicant) ==
  /\ lastCall' = [op |-> "getApplicantStatus", result |-> "ok"]
  /\ events' = <<>>
  /\ returned' =
       <<assessments[currentAssessmentId].profiles[applicant].hasSubmitted,
         assessments[currentAssessmentId].profiles[applicant].timestamp,
         assessments[currentAssessmentId].approvedApplicants[applicant]>>
  /\ UNCHANGED <<contractVars, fheVars, historyVars, now>>

getCurrentHour ==
  /\ lastCall' = [op |-> "getCurrentHour", result |-> "ok"]
  /\ events' = <<>>
  /\ returned' = (now \div SecondsPerHour) % HoursPerDay
  /\ UNCHANGED <<contractVars, fheVars, historyVars, now>>

\* a later block: block.timestamp grows
Tick ==
  /\ now + TickStep <= MaxTime
  /\ now' = now + TickStep
  /\ UNCHANGED <<contractVars, fheVars, historyVars, lastCall, events, returned>>

StartCall == \E sender \in Addr : startNewAssessment(sender)

SubmitCall ==
  \E sender \in Addr, in \in SubmitInputs :
     submitRiskProfile(sender, in[1], in[2], in[3], in[4])

ProcessCall == \E sender \in Addr : processRiskAssessment(sender)

CallbackCall ==
  \E requestId \in 1..(Len(requestedHandles) + 1),
     riskThreshold \in CleartextInputs,
     genuine \in BOOLEAN :
       processAssessmentResult(requestId, riskThreshold, genuine)

PauseCall == \E sender \in Addr : pauseCurrentAssessment(sender)

Next ==
  \/ StartCall
  \/ SubmitCall
  \/ ProcessCall
  \/ CallbackCall
  \/ PauseCall
  \/ Tick

Spec == Init /\ [][Next]_vars

\* ------------------------------------------------------------------------
\* Time gate on its own: the clock takes every second of a sampled range
\* ------------------------------------------------------------------------
ClockSamples ==
  {h * SecondsPerHour + d : h \in 0..MaxClockHours, d \in {0, 1799, 3598}}

ClockInit ==
  /\ owner = Deployer
  /\ currentAssessmentId = 1
  /\ now \in ClockSamples
  /\ lastAssessmentTime = now
  /\ assessments = [id \in 1..MaxAssessmentId |-> EmptyAssessment]
  /\ ciphertexts = <<>>
  /\ acl = {}
  /\ requestedHandles = <<>>
  /\ calls = 0
  /\ requestAssessment = <<>>
  /\ started = [id \in 1..MaxAssessmentId |-> 0]
  /\ fulfilled = [r \in 1..MaxRequests |-> 0]
  /\ lastCall = [op |-> "constructor", result |-> "ok"]
  /\ events = <<>>
  /\ returned = 0

ClockTick ==
  /\ now \in ClockSamples
  /\ now' = now + 1
  /\ UNCHANGED <<contractVars, fheVars, historyVars, lastCall, events, returned>>

ClockNext == getCurrentHour \/ ClockTick

SpecClock == ClockInit /\ [][ClockNext]_vars

\* ------------------------------------------------------------------------
\* The lifecycle together with the two status views
\* ------------------------------------------------------------------------
\* The decryption oracle.  FHE.requestDecryption hands the oracle the handle
\* and the selector of processAssessmentResult; the oracle answers a request
\* it has not answered yet with the decryption of the handle and its own
\* signatures.  The oracle is fair: a request it can answer is answered.
\* ------------------------------------------------------------------------
OracleDelivery ==
  \E requestId \in {r \in 1..Len(requestedHandles) : fulfilled[r] = 0} :
     processAssessmentResult(requestId,
                             ciphertexts[requestedHandles[requestId][1]].plain,
                             TRUE)

\* the calls of everybody else: accounts and forged or replayed callbacks.
\* The last of the MaxCalls successful calls is kept for the oracle.
EnvironmentCall ==
  /\ calls + 1 < MaxCalls
  /\ \/ StartCall
     \/ SubmitCall
     \/ ProcessCall
     \/ CallbackCall
     \/ PauseCall

OracleNext ==
  \/ EnvironmentCall
  \/ OracleDelivery
  \/ Tick

SpecOracle == Init /\ [][OracleNext]_vars /\ WF_vars(OracleDelivery)

\* ------------------------------------------------------------------------
\* the ids looked up: every cycle up to the current one and the one after it
\* (the cycles after the current one are all alike)
LookupIds == {id \in 1..MaxAssessmentId : id <= currentAssessmentId + 1}

ApprovalCall ==
  \E assessmentId \in LookupIds, applicant \in Addr :
     checkApprovalStatus(assessmentId, applicant)

StatusCall == \E applicant \in Addr : getApplicantStatus(applicant)

\* the calls that change the contract, with the inputs that some state
\* accepts: rejected inputs leave nothing for a view to read
AcceptableSubmitCall ==
  \E sender \in Addr,
     in \in {t \in SubmitInputs : /\ t[1] <= MaxCreditScore
                                  /\ t[3] <= MaxEmploymentYears
                                  /\ ValidDebtRatio(t[4])} :
     submitRiskProfile(sender, in[1], in[2], in[3], in[4])

SignedCallbackCall ==
  \E requestId \in 1..Len(requestedHandles), riskThreshold \in CleartextInputs :
     processAssessmentResult(requestId, riskThreshold, TRUE)

ViewsNext ==
  \/ StartCall
  \/ AcceptableSubmitCall
  \/ ProcessCall
  \/ SignedCallbackCall
  \/ PauseCall
  \/ Tick
  \/ ApprovalCall
  \/ StatusCall

SpecViews == Init /\ [][ViewsNext]_vars

\* ========================================================================
\* Properties
\* ========================================================================
Current == assessments[currentAssessmentId]

\* the current cycle is active: threshold set and not completed
Active == Current.thresholdSet /\ ~Current.assessmentCompleted

SecondsPerDay == 24 * 3600
WindowOpens == 9 * 3600      \* 09:00:00 as second of the day
WindowCloses == 17 * 3600    \* 17:00:00 as second of the day

\* the submission window, from the second of the day
InSubmissionHours(t) ==
  WindowOpens <= t % SecondsPerDay /\ t % SecondsPerDay < WindowCloses

SubmissionOpen == Active /\ InSubmissionHours(now)

\* the participant has a profile stored in the current cycle
HasProfile(a) == Current.profiles[a].hasSubmitted

\* the error kinds of the revert reasons
ErrorKind(reason) ==
  CASE reason \in {"Not authorized", "SenderNotAllowed"} -> "AuthorizationError"
    [] reason \in {"Not during business hours", "Assessment window not active",
                   "Not evaluation time"} -> "TimingError"
    [] reason \in {"Assessment already active", "No threshold set",
                   "Assessment already completed"} -> "StateError"
    [] reason \in {"Invalid credit score", "Invalid employment years",
                   "Invalid debt ratio"} -> "RangeError"
    [] reason = "Profile already submitted" -> "DuplicateSubmissionError"
    [] reason = "InvalidKMSSignatures" -> "VerificationError"
    [] OTHER -> "none"

Failed(kind) == ErrorKind(lastCall'.result) = kind

\* the step is a call of the function op
Called(op) == lastCall'.op = op

InRange(in) ==
  in[1] <= MaxCreditScore /\ in[3] <= MaxEmploymentYears /\ in[4] <= MaxDebtRatio

\* C1 (cycle exclusivity): while the current cycle is active no call of
\* startNewAssessment succeeds and none changes a cycle record or the
\* current cycle id; the owner's call in business hours fails with
\* "Assessment already active", a StateError.
C1_CycleExclusivity ==
  [][\A sender \in Addr :
       (Active /\ Called("startNewAssessment") /\ startNewAssessment(sender)) =>
         /\ lastCall'.result # "ok"
         /\ assessments' = assessments
         /\ currentAssessmentId' = currentAssessmentId
         /\ (sender = owner /\ InSubmissionHours(now)) =>
              (lastCall'.result = "Assessment already active" /\ Failed("StateError"))]_vars

C1_Witness ==
  /\ Active
  /\ lastCall = [op |-> "startNewAssessment", result |-> "Assessment already active"]

\* C2 (late-callback guard): a callback for a request of the current cycle,
\* arriving after pause has marked that cycle completed, is rejected and
\* changes nothing of the contract, whatever its proof.
C2_LateCallbackRejected ==
  [][\A requestId \in 1..Len(requestedHandles), riskThreshold \in CleartextInputs,
        genuine \in BOOLEAN :
       (/\ Current.assessmentCompleted
        /\ Called("processAssessmentResult")
        /\ requestAssessment[requestId] = currentAssessmentId
        /\ processAssessmentResult(requestId, riskThreshold, genuine)) =>
         /\ lastCall'.result # "ok"
         /\ events' = <<>>
         /\ UNCHANGED contractVars]_vars

\* C3 (replay protection): for every request id at most one callback with
\* that id is ever accepted.
C3_AtMostOneAcceptedCallback ==
  \A requestId \in 1..Len(requestedHandles) : fulfilled[requestId] <= 1

\* C4 (completed cycles are immutable): a cycle record whose completed flag
\* is set is left as it is by every later step.
C4_CompletedImmutable ==
  [][\A id \in 1..MaxAssessmentId :
       assessments[id].assessmentCompleted => assessments'[id] = assessments[id]]_vars

\* C5 as claimed: every further submission by a participant whose profile is
\* stored in the open current cycle fails with "Profile already submitted".
C5_SecondAlwaysDuplicateError ==
  [][\A sender \in Addr, in \in SubmitInputs :
       (/\ SubmissionOpen
        /\ Called("submitRiskProfile")
        /\ HasProfile(sender)
        /\ submitRiskProfile(sender, in[1], in[2], in[3], in[4])) =>
         lastCall'.result = "Profile already submitted"]_vars

\* C5 (idempotent submission, amended): a submission is accepted only from a
\* participant with no profile in the current cycle and stores one; a stored
\* profile's submitted flag is never cleared; a further submission by that
\* participant in the open cycle changes no cycle record and fails with
\* DuplicateSubmissionError when its values are in range and with RangeError
\* when they are not.
C5_IdempotentSubmission ==
  [][/\ \A sender \in Addr, in \in SubmitInputs :
          (/\ lastCall' = [op |-> "submitRiskProfile", result |-> "ok"]
           /\ submitRiskProfile(sender, in[1], in[2], in[3], in[4])) =>
            /\ ~HasProfile(sender)
            /\ assessments'[currentAssessmentId].profiles[sender].hasSubmitted
     /\ \A sender \in Addr, in \in SubmitInputs :
          (/\ SubmissionOpen
           /\ Called("submitRiskProfile")
           /\ HasProfile(sender)
           /\ submitRiskProfile(sender, in[1], in[2], in[3], in[4])) =>
            /\ assessments' = assessments
            /\ IF InRange(in) THEN Failed("DuplicateSubmissionError")
               ELSE Failed("RangeError")
     /\ \A id \in 1..MaxAssessmentId, a \in Addr :
          assessments[id].profiles[a].hasSubmitted =>
            assessments'[id].profiles[a] = assessments[id].profiles[a]]_vars

C5_Witness ==
  /\ SubmissionOpen
  /\ lastCall = [op |-> "submitRiskProfile", result |-> "Profile already submitted"]
  /\ Len(Current.applicants) = 1

\* C6 (submission gating): submitRiskProfile is accepted only while the
\* current cycle is active and the hour is in [9,17); in every other state
\* it fails with "Assessment window not active", a TimingError, and no
\* cycle record changes.
C6_SubmissionGating ==
  [][(/\ Called("submitRiskProfile")
      /\ \E sender \in Addr, in \in SubmitInputs :
           submitRiskProfile(sender, in[1], in[2], in[3], in[4])) =>
         IF SubmissionOpen
           THEN lastCall'.result # "Assessment window not active"
           ELSE /\ lastCall'.result = "Assessment window not active"
                /\ Failed("TimingError")
                /\ assessments' = assessments]_vars

C6_Witness ==
  /\ Active
  /\ ~InSubmissionHours(now)
  /\ lastCall = [op |-> "submitRiskProfile", result |-> "Assessment window not active"]

\* C7 (range enforcement): in an open cycle a participant without a profile
\* is rejected with a RangeError exactly when the credit score exceeds 850,
\* the employment years 50 or the debt ratio 100, and is accepted otherwise,
\* whatever the income.
C7_RangeEnforcement ==
  [][\A sender \in Addr, in \in SubmitInputs :
       (/\ SubmissionOpen
        /\ Called("submitRiskProfile")
        /\ ~HasProfile(sender)
        /\ submitRiskProfile(sender, in[1], in[2], in[3], in[4])) =>
         IF in[1] > 850 \/ in[3] > 50 \/ in[4] > 100
           THEN Failed("RangeError")
           ELSE lastCall'.result = "ok"]_vars

C7_Witness ==
  /\ SubmissionOpen
  /\ lastCall.op = "submitRiskProfile"
  /\ lastCall.result = "ok"
  /\ \E a \in Addr :
       /\ Current.profiles[a].hasSubmitted
       /\ ciphertexts[Current.profiles[a].encryptedCreditScore].plain = 850
       /\ ciphertexts[Current.profiles[a].encryptedIncome].plain = 2000000000
       /\ ciphertexts[Current.profiles[a].encryptedEmploymentYears].plain = 50
       /\ ciphertexts[Current.profiles[a].encryptedDebtRatio].plain = 100

\* C8 (window gating): at every timestamp isBusinessHours is true exactly
\* from 09:00:00 up to, not including, 17:00:00 of the day, and
\* getCurrentHour returns the hour (t div 3600) mod 24, a value in 0..23.
C8_WindowGating ==
  /\ [](isBusinessHours <=> InSubmissionHours(now))
  /\ [](HourOf(now) \in 0..23)
  /\ [][getCurrentHour =>
          /\ returned' \in 0..23
          /\ returned' * SecondsPerHour <= now % SecondsPerDay
          /\ now % SecondsPerDay < (returned' + 1) * SecondsPerHour]_vars

C8_Witness ==
  /\ now % SecondsPerDay = WindowCloses
  /\ ~isBusinessHours
  /\ lastCall.op = "getCurrentHour"
  /\ returned = 17

\* C9 (disjoint windows): the evaluation window holds exactly outside the
\* submission hours on an active cycle; on an active cycle exactly one of
\* submission window and evaluation window holds, and never both.
C9_DisjointWindows ==
  /\ isEvaluationTimeActive <=> (~InSubmissionHours(now) /\ Active)
  /\ Active => (isAssessmentWindowActive # isEvaluationTimeActive)
  /\ Active => (isBusinessHours # isEvaluationTimeActive)
  /\ ~(isAssessmentWindowActive /\ isEvaluationTimeActive)

C9_Witness == Active /\ isEvaluationTimeActive /\ ~isAssessmentWindowActive

\* C10 (effect of an accepted callback): the cycle c that was current is
\* completed with the revealed threshold as final risk level and the time of
\* the callback as end time, both events carry c, and the current cycle id
\* is c + 1, naming a cycle with no threshold, not completed, no applicants.
C10_CallbackEffect ==
  [][\A requestId \in 1..(Len(requestedHandles) + 1),
        riskThreshold \in CleartextInputs, genuine \in BOOLEAN :
       (/\ lastCall' = [op |-> "processAssessmentResult", result |-> "ok"]
        /\ processAssessmentResult(requestId, riskThreshold, genuine)) =>
         LET c == currentAssessmentId IN
         /\ assessments'[c].assessmentCompleted
         /\ assessments'[c].finalRiskLevel = riskThreshold
         /\ assessments'[c].endTime = now
         /\ Len(events') = 2
         /\ events'[1].name = "AssessmentCompleted" /\ events'[1].assessmentId = c
         /\ events'[2] = Event("RiskLevelRevealed", c, ZeroAddress, riskThreshold)
         /\ currentAssessmentId' = c + 1
         /\ ~assessments'[c + 1].thresholdSet
         /\ ~assessments'[c + 1].assessmentCompleted
         /\ assessments'[c + 1].applicants = <<>>]_vars

C10_Witness ==
  /\ lastCall = [op |-> "processAssessmentResult", result |-> "ok"]
  /\ currentAssessmentId = 2
  /\ assessments[1].assessmentCompleted
  /\ Len(assessments[1].applicants) = 2
  /\ assessments[1].finalRiskLevel = 50

\* the pseudo-risk score of participant p in cycle c
Score(p, c) == Keccak256Packed(p, c) % 101

\* C11 (evaluation result): when a callback completes cycle c with revealed
\* threshold T, every participant p of c's list has its approval flag true
\* exactly when Score(p, c) <= T, the score lies in 0..100, and the count in
\* AssessmentCompleted is the number of list entries with Score <= T.
C11_EvaluationResult ==
  [][\A requestId \in 1..(Len(requestedHandles) + 1),
        riskThreshold \in CleartextInputs, genuine \in BOOLEAN :
       (/\ lastCall' = [op |-> "processAssessmentResult", result |-> "ok"]
        /\ processAssessmentResult(requestId, riskThreshold, genuine)) =>
         LET c == currentAssessmentId
             list == assessments[c].applicants
         IN
         /\ \A i \in 1..Len(list) :
              /\ Score(list[i], c) \in 0..100
              /\ assessments'[c].approvedApplicants[list[i]] <=>
                   (Score(list[i], c) <= riskThreshold)
         /\ events'[1].name = "AssessmentCompleted"
         /\ events'[1].value =
              Cardinality({i \in 1..Len(list) : Score(list[i], c) <= riskThreshold})]_vars

\* a callback with threshold 50 completed cycle 1 with two participants, one
\* approved and one not
C11_Witness ==
  /\ lastCall = [op |-> "processAssessmentResult", result |-> "ok"]
  /\ Len(events) = 2
  /\ events[1] = Event("AssessmentCompleted", 1, ZeroAddress, 1)
  /\ Len(assessments[1].applicants) = 2
  /\ assessments[1].finalRiskLevel = 50
  /\ \E p, q \in Addr :
       /\ assessments[1].approvedApplicants[p]
       /\ ~assessments[1].approvedApplicants[q]

\* the evaluation as a function of cycle id, participant list and threshold
\* alone: the approval of p and the number of approvals
ApprovalOf(p, c, list, T) ==
  (\E i \in 1..Len(list) : list[i] = p) /\ Score(p, c) <= T

ApprovalsIn(c, list, T) ==
  Cardinality({i \in 1..Len(list) : ApprovalOf(list[i], c, list, T)})

\* C12 (deterministic evaluation): the approval flag of every principal and
\* the approvedCount left by an accepted callback are the values of
\* ApprovalOf and ApprovalsIn, which read the cycle id, the participant list
\* and the revealed threshold and nothing else; two runs that agree on these
\* three therefore agree on every flag and on the count, whatever the
\* profiles, the submission times and the callback time are.
C12_DeterministicEvaluation ==
  [][\A requestId \in 1..(Len(requestedHandles) + 1),
        riskThreshold \in CleartextInputs, genuine \in BOOLEAN :
       (/\ lastCall' = [op |-> "processAssessmentResult", result |-> "ok"]
        /\ processAssessmentResult(requestId, riskThreshold, genuine)) =>
         LET c == currentAssessmentId
             list == assessments[c].applicants
         IN
         /\ \A p \in Addr :
              assessments'[c].approvedApplicants[p] =
                ApprovalOf(p, c, list, riskThreshold)
         /\ events'[1].value = ApprovalsIn(c, list, riskThreshold)]_vars

\* a callback taken a day after the submission completed cycle 1 for the
\* list <<deployer>> with threshold 50
C12_Witness ==
  /\ lastCall = [op |-> "processAssessmentResult", result |-> "ok"]
  /\ assessments[1].assessmentCompleted
  /\ assessments[1].applicants = <<Deployer>>
  /\ assessments[1].finalRiskLevel = 50
  /\ assessments[1].endTime = assessments[1].profiles[Deployer].timestamp + 2 * TickStep
  /\ ~assessments[1].approvedApplicants[Deployer]

\* the decrypted value of the handle that request r asked for
Plaintext(r) == ciphertexts[requestedHandles[r][1]].plain

\* the proof authenticates (requestId, cleartext): the request was issued and
\* the oracle signed the decryption of its handle
Authentic(requestId, cleartext, genuine) ==
  /\ requestId \in 1..Len(requestedHandles)
  /\ genuine
  /\ cleartext = Plaintext(requestId)

\* C13 (invalid callbacks are discarded): a callback whose proof does not
\* authenticate (requestId, riskThreshold) fails with a VerificationError,
\* emits nothing and changes neither the contract state nor the library
\* state; every issued request still passes the signature check with its
\* genuine proof afterwards.  In two parts: an accepted callback carries an
\* authenticating proof, and a callback that is not accepted is discarded.
C13_InvalidCallbackDiscarded ==
  [][/\ \A requestId \in 1..(Len(requestedHandles) + 1),
           riskThreshold \in CleartextInputs, genuine \in BOOLEAN :
          (/\ lastCall' = [op |-> "processAssessmentResult", result |-> "ok"]
           /\ processAssessmentResult(requestId, riskThreshold, genuine)) =>
            Authentic(requestId, riskThreshold, genuine)
     /\ (Called("processAssessmentResult") /\ lastCall'.result # "ok") =>
          /\ Failed("VerificationError")
          /\ events' = <<>>
          /\ UNCHANGED <<contractVars, fheVars>>
          /\ \A r \in 1..Len(requestedHandles) :
               checkSignatures(r, Plaintext(r), TRUE)']_vars

\* a callback was rejected while the request of the active cycle is pending
C13_Witness ==
  /\ lastCall = [op |-> "processAssessmentResult", result |-> "InvalidKMSSignatures"]
  /\ Active
  /\ Len(requestedHandles) = 1
  /\ requestAssessment[1] = currentAssessmentId
  /\ fulfilled[1] = 0

\* the functions that change state
Operations ==
  {"startNewAssessment", "submitRiskProfile", "processRiskAssessment",
   "processAssessmentResult", "pauseCurrentAssessment"}

\* C14 (all-or-nothing): a call of startNewAssessment, submitRiskProfile,
\* processRiskAssessment, processAssessmentResult or pauseCurrentAssessment
\* that fails leaves every cycle record with its profiles and approval
\* flags, the current cycle id, the owner, the ciphertexts, the ACL grants
\* and the decryption requests as they were and emits no event.
C14_AllOrNothing ==
  [][(lastCall'.op \in Operations /\ lastCall'.result # "ok") =>
       /\ assessments' = assessments
       /\ currentAssessmentId' = currentAssessmentId
       /\ owner' = owner
       /\ lastAssessmentTime' = lastAssessmentTime
       /\ ciphertexts' = ciphertexts
       /\ acl' = acl
       /\ requestedHandles' = requestedHandles
       /\ events' = <<>>]_vars

\* a failed call on an active cycle that has a participant, grants and a
\* pending request
C14_Witness ==
  /\ lastCall.op \in Operations
  /\ lastCall.result = "Assessment window not active"
  /\ Active
  /\ Len(Current.applicants) = 1
  /\ acl # {}
  /\ Len(requestedHandles) = 1

\* the cycle records that are active: threshold set and not completed
ActiveCycles ==
  {id \in 1..MaxAssessmentId :
     assessments[id].thresholdSet /\ ~assessments[id].assessmentCompleted}

\* C15 (single active cycle): at most one cycle record is active, and an
\* active cycle record is the one named by the current cycle id.
C15_SingleActiveCycle ==
  /\ Cardinality(ActiveCycles) <= 1
  /\ \A id \in ActiveCycles : id = currentAssessmentId

\* cycle 2 is active after cycle 1 was started and completed by its callback
C15_Witness ==
  /\ currentAssessmentId = 2
  /\ ActiveCycles = {2}
  /\ assessments[1].thresholdSet
  /\ assessments[1].assessmentCompleted
  /\ fulfilled[1] = 1

\* cycle id is completed and no completed cycle has a later end time
MostRecentlyCompleted(id) ==
  /\ assessments[id].assessmentCompleted
  /\ \A other \in 1..MaxAssessmentId :
       assessments[other].assessmentCompleted =>
         assessments[other].endTime <= assessments[id].endTime

\* the current cycle was never started: no threshold, not completed, no
\* participant, no AssessmentStarted for its id
NotStarted ==
  /\ ~Current.thresholdSet
  /\ ~Current.assessmentCompleted
  /\ Current.applicants = <<>>
  /\ started[currentAssessmentId] = 0

\* C16 as claimed: in every state the current cycle is active or is the most
\* recently completed cycle.
C16_ActiveOrLastCompleted ==
  Active \/ MostRecentlyCompleted(currentAssessmentId)

\* C16 (current-cycle reference, amended): the current cycle is active, or
\* is the most recently completed cycle, or was never started; in the last
\* case it is cycle 1 or follows the most recently completed cycle.  Every
\* cycle before the current one is completed and every cycle after it is
\* untouched.
C16_CurrentCycleReference ==
  /\ \/ Active
     \/ MostRecentlyCompleted(currentAssessmentId)
     \/ /\ NotStarted
        /\ currentAssessmentId = 1 \/ MostRecentlyCompleted(currentAssessmentId - 1)
  /\ \A id \in 1..MaxAssessmentId :
       /\ id < currentAssessmentId => assessments[id].assessmentCompleted
       /\ id > currentAssessmentId => assessments[id] = EmptyAssessment

\* right after the callback that completed cycle 1 a day after its start:
\* the current cycle 2 was never started and cycle 1 is the last completed
C16_Witness ==
  /\ lastCall = [op |-> "processAssessmentResult", result |-> "ok"]
  /\ currentAssessmentId = 2
  /\ NotStarted
  /\ MostRecentlyCompleted(1)
  /\ assessments[1].endTime > DeployTime

\* C17 (new cycles begin only by increment): AssessmentStarted is emitted at
\* most once per cycle id, so that no startNewAssessment opens an id that
\* was started before.
C17_StartedAtMostOnce ==
  \A id \in 1..MaxAssessmentId : started[id] <= 1

\* C18 (owner-only operations): startNewAssessment and pauseCurrentAssessment
\* called by anyone but the owner fail with "Not authorized", an
\* AuthorizationError, in every state and at every hour, and change nothing
\* and emit nothing; the owner is the deployer and no step changes it.
C18_OwnerOnly ==
  /\ [](owner = Deployer)
  /\ [][/\ owner' = owner
        /\ \A sender \in Addr \ {owner} :
             (\/ Called("startNewAssessment") /\ startNewAssessment(sender)
              \/ Called("pauseCurrentAssessment") /\ pauseCurrentAssessment(sender)) =>
               /\ lastCall'.result = "Not authorized"
               /\ Failed("AuthorizationError")
               /\ events' = <<>>
               /\ UNCHANGED <<contractVars, fheVars>>]_vars

\* a principal other than the owner was refused the pause of an active cycle
\* outside business hours
C18_Witness ==
  /\ lastCall = [op |-> "pauseCurrentAssessment", result |-> "Not authorized"]
  /\ Active
  /\ ~InSubmissionHours(now)
  /\ owner = Deployer

\* C19 (startNewAssessment success): a call succeeds exactly when the caller
\* is the owner, the time is in the submission window and the current cycle
\* has no threshold set or is completed; it leaves the current cycle with
\* threshold set, not completed, start time now, no participant and an
\* engine grant on the threshold handle, keeps the current cycle id and
\* emits AssessmentStarted(current id, now) and nothing else.
C19_StartSuccess ==
  [][\A sender \in Addr :
       (Called("startNewAssessment") /\ startNewAssessment(sender)) =>
         LET c == currentAssessmentId
             pre == /\ sender = owner
                    /\ InSubmissionHours(now)
                    /\ ~Current.thresholdSet \/ Current.assessmentCompleted
         IN
         /\ (lastCall'.result = "ok") <=> pre
         /\ pre =>
              /\ assessments'[c].thresholdSet
              /\ ~assessments'[c].assessmentCompleted
              /\ assessments'[c].startTime = now
              /\ assessments'[c].applicants = <<>>
              /\ <<assessments'[c].riskThreshold, This>> \in acl'
              /\ currentAssessmentId' = c
              /\ events' = <<Event("AssessmentStarted", c, ZeroAddress, now)>>]_vars

\* the owner restarted, a day later, the paused cycle 1 that had a participant
C19_Witness ==
  /\ lastCall = [op |-> "startNewAssessment", result |-> "ok"]
  /\ currentAssessmentId = 1
  /\ started[1] = 2
  /\ Active
  /\ Current.startTime = DeployTime + 2 * TickStep
  /\ Current.applicants = <<>>
  /\ \E a \in Addr : HasProfile(a)

\* C20 (state errors of processRiskAssessment): outside the submission hours
\* a call on a current cycle with no threshold set fails with "No threshold
\* set" and a call on a completed current cycle fails with "Assessment
\* already completed", both StateErrors and not the TimingError.
C20_TriggerStateError ==
  [][(/\ Called("processRiskAssessment")
      /\ ~InSubmissionHours(now)
      /\ \E sender \in Addr : processRiskAssessment(sender)) =>
       /\ ~Current.thresholdSet =>
            (lastCall'.result = "No threshold set" /\ Failed("StateError"))
       /\ (Current.thresholdSet /\ Current.assessmentCompleted) =>
            (lastCall'.result = "Assessment already completed" /\ Failed("StateError"))]_vars

\* the fields of cycle record id that a pause must leave alone
PauseKeeps(id) ==
  /\ assessments'[id].riskThreshold = assessments[id].riskThreshold
  /\ assessments'[id].thresholdSet = assessments[id].thresholdSet
  /\ assessments'[id].finalRiskLevel = assessments[id].finalRiskLevel
  /\ assessments'[id].startTime = assessments[id].startTime
  /\ assessments'[id].applicants = assessments[id].applicants
  /\ assessments'[id].profiles = assessments[id].profiles
  /\ assessments'[id].approvedApplicants = assessments[id].approvedApplicants

\* C21 (pause effect): a pauseCurrentAssessment by the owner succeeds in
\* every state and at every hour; it leaves the current cycle completed with
\* end time now and changes nothing else: the other fields of the record,
\* every other record, the current cycle id, the owner and the library
\* state are as before and no event is emitted.
C21_PauseEffect ==
  [][(Called("pauseCurrentAssessment") /\ pauseCurrentAssessment(owner)) =>
       LET c == currentAssessmentId IN
       /\ lastCall'.result = "ok"
       /\ assessments'[c].assessmentCompleted
       /\ assessments'[c].endTime = now
       /\ PauseKeeps(c)
       /\ \A id \in 1..MaxAssessmentId : id # c => assessments'[id] = assessments[id]
       /\ currentAssessmentId' = c
       /\ owner' = owner
       /\ lastAssessmentTime' = lastAssessmentTime
       /\ UNCHANGED fheVars
       /\ events' = <<>>]_vars

\* the owner paused, outside business hours, an active cycle with a
\* participant
C21_Witness ==
  /\ lastCall = [op |-> "pauseCurrentAssessment", result |-> "ok"]
  /\ ~InSubmissionHours(now)
  /\ Current.thresholdSet
  /\ Current.assessmentCompleted
  /\ Current.endTime = now
  /\ Current.startTime < now
  /\ Len(Current.applicants) = 1

\* the step is a call that succeeded
Succeeded == calls' = calls + 1

\* C22 (monotonic cycle id): the current cycle id is 1 initially, with a
\* cycle that was never started; it never decreases; a step changes it only
\* if it is an accepted processAssessmentResult, which adds exactly 1; every
\* other call and every failed call leaves it as it was.
C22_MonotonicCycleId ==
  /\ currentAssessmentId = 1 /\ NotStarted
  /\ [][/\ currentAssessmentId' >= currentAssessmentId
        /\ (Succeeded /\ Called("processAssessmentResult")) <=>
             currentAssessmentId' = currentAssessmentId + 1
        /\ ~(Succeeded /\ Called("processAssessmentResult")) =>
             currentAssessmentId' = currentAssessmentId]_vars

\* cycle 2 was started after the callback that closed cycle 1, and the id
\* is still 2
C22_Witness ==
  /\ lastCall = [op |-> "startNewAssessment", result |-> "ok"]
  /\ currentAssessmentId = 2
  /\ fulfilled[1] = 1
  /\ started[2] = 1

\* C23 (request-to-cycle binding): an accepted callback with request id r
\* completes the cycle that was current when r was issued, whose threshold
\* handle is still the one r asked for, and records the plaintext of that
\* cycle's threshold as final risk level.
C23_RequestCycleBinding ==
  [][\A requestId \in 1..Len(requestedHandles),
        riskThreshold \in CleartextInputs, genuine \in BOOLEAN :
       (/\ lastCall' = [op |-> "processAssessmentResult", result |-> "ok"]
        /\ processAssessmentResult(requestId, riskThreshold, genuine)) =>
         /\ requestAssessment[requestId] = currentAssessmentId
         /\ requestedHandles[requestId] = <<Current.riskThreshold>>
         /\ assessments'[currentAssessmentId].finalRiskLevel =
              ciphertexts[Current.riskThreshold].plain]_vars

\* C24 (processRiskAssessment gating): a call succeeds exactly when the time
\* is outside the submission hours and the current cycle has its threshold
\* set and is not completed; inside the submission hours it fails with
\* "Not evaluation time", a TimingError.
C24_TriggerGating ==
  [][(/\ Called("processRiskAssessment")
      /\ \E sender \in Addr : processRiskAssessment(sender)) =>
       /\ (lastCall'.result = "ok") <=> (~InSubmissionHours(now) /\ Active)
       /\ InSubmissionHours(now) =>
            (lastCall'.result = "Not evaluation time" /\ Failed("TimingError"))]_vars

\* a request was issued outside business hours for the active cycle, which
\* has a participant
C24_Witness ==
  /\ lastCall = [op |-> "processRiskAssessment", result |-> "ok"]
  /\ ~InSubmissionHours(now)
  /\ Active
  /\ Len(Current.applicants) = 1
  /\ requestedHandles = <<<<Current.riskThreshold>>>>

\* C25 (processRiskAssessment frame): a successful call adds one decryption
\* request, for the threshold handle of the current cycle, and changes
\* nothing else: the cycle id, every cycle record, the owner, the
\* ciphertexts and the grants are as before and no event is emitted.
C25_TriggerFrame ==
  [][(Succeeded /\ Called("processRiskAssessment")) =>
       /\ lastCall'.result = "ok"
       /\ requestedHandles' = Append(requestedHandles, <<Current.riskThreshold>>)
       /\ Current.riskThreshold \in 1..Len(ciphertexts)
       /\ assessments' = assessments
       /\ currentAssessmentId' = currentAssessmentId
       /\ owner' = owner
       /\ lastAssessmentTime' = lastAssessmentTime
       /\ ciphertexts' = ciphertexts
       /\ acl' = acl
       /\ events' = <<>>]_vars

\* a second request was issued for a cycle with a participant; the cycle is
\* still active
C25_Witness ==
  /\ lastCall = [op |-> "processRiskAssessment", result |-> "ok"]
  /\ Active
  /\ Len(Current.applicants) = 1
  /\ requestedHandles = <<<<Current.riskThreshold>>, <<Current.riskThreshold>>>>
  /\ events = <<>>

\* the four handles of a stored profile
ProfileHandles(profile) ==
  {profile.encryptedCreditScore, profile.encryptedIncome,
   profile.encryptedEmploymentYears, profile.encryptedDebtRatio}

\* C26 (ACL grants on encrypted values): each of the four handles of every
\* stored profile is granted to the contract and to the participant who
\* submitted it; the threshold handle of every started cycle is granted to
\* the contract; every handle named in a decryption request is granted to
\* the contract; no processRiskAssessment has failed with an
\* AuthorizationError.
C26_AclGrants ==
  /\ \A id \in 1..MaxAssessmentId, a \in Addr :
       assessments[id].profiles[a].hasSubmitted =>
         \A h \in ProfileHandles(assessments[id].profiles[a]) :
           /\ h \in 1..Len(ciphertexts)
           /\ <<h, This>> \in acl
           /\ <<h, a>> \in acl
  /\ \A id \in 1..MaxAssessmentId :
       started[id] > 0 =>
         /\ assessments[id].thresholdSet
         /\ <<assessments[id].riskThreshold, This>> \in acl
  /\ \A r \in 1..Len(requestedHandles) :
       \A i \in 1..Len(requestedHandles[r]) : <<requestedHandles[r][i], This>> \in acl
  /\ ~(lastCall.op = "processRiskAssessment"
         /\ ErrorKind(lastCall.result) = "AuthorizationError")

\* a request was issued for a cycle with a stored profile: one grant for the
\* threshold and eight for the profile
C26_Witness ==
  /\ lastCall = [op |-> "processRiskAssessment", result |-> "ok"]
  /\ Len(requestedHandles) = 1
  /\ \E a \in Addr : HasProfile(a) /\ a # Deployer
  /\ Cardinality(acl) = 9

C28_AppendOnlyList ==
  [][\A id \in 1..MaxAssessmentId :
       /\ \/ assessments'[id].applicants = assessments[id].applicants
          \/ /\ Succeeded /\ Called("submitRiskProfile")
             /\ id = currentAssessmentId
             /\ \E a \in Addr :
                  assessments'[id].applicants = Append(assessments[id].applicants, a)
       /\ \A i, j \in 1..Len(assessments'[id].applicants) :
            assessments'[id].applicants[i] = assessments'[id].applicants[j] => i = j]_vars

\* C29 (effect of a successful submitRiskProfile): the profile of the sender
\* p in the current cycle c has its submitted flag set, the time of the call
\* and p as identity; c's list is the old list with p appended; the one
\* event is ProfileSubmitted(p, c); every other profile, every approval
\* flag, the flags and the other fields of every cycle record and the
\* current cycle id are as before.
C29_SubmitEffect ==
  [][\A sender \in Addr, in \in SubmitInputs :
       (/\ lastCall' = [op |-> "submitRiskProfile", result |-> "ok"]
        /\ submitRiskProfile(sender, in[1], in[2], in[3], in[4])) =>
         LET c == currentAssessmentId
             old == assessments[c]
             new == assessments'[c]
         IN
         /\ new.profiles[sender].hasSubmitted
         /\ new.profiles[sender].timestamp = now
         /\ new.profiles[sender].applicant = sender
         /\ Len(new.applicants) = Len(old.applicants) + 1
         /\ new.applicants = Append(old.applicants, sender)
         /\ events' = <<Event("ProfileSubmitted", c, sender, 0)>>
         /\ \A a \in Addr \ {sender} : new.profiles[a] = old.profiles[a]
         /\ new.approvedApplicants = old.approvedApplicants
         /\ new.thresholdSet = old.thresholdSet
         /\ new.assessmentCompleted = old.assessmentCompleted
         /\ new.riskThreshold = old.riskThreshold
         /\ new.finalRiskLevel = old.finalRiskLevel
         /\ new.startTime = old.startTime
         /\ new.endTime = old.endTime
         /\ \A id \in 1..MaxAssessmentId : id # c => assessments'[id] = assessments[id]
         /\ currentAssessmentId' = c]_vars

\* the second participant of cycle 1 submitted a day after the first
C29_Witness ==
  /\ lastCall = [op |-> "submitRiskProfile", result |-> "ok"]
  /\ Len(events) = 1
  /\ events[1].name = "ProfileSubmitted"
  /\ Len(Current.applicants) = 2
  /\ events[1].applicant = Current.applicants[2]
  /\ Current.profiles[Current.applicants[2]].timestamp = now
  /\ Current.profiles[Current.applicants[1]].timestamp < now

\* the outcome of startNewAssessment by the listed order of its checks
StartOutcome(sender) ==
  IF sender # owner THEN "Not authorized"
  ELSE IF ~InSubmissionHours(now) THEN "Not during business hours"
  ELSE IF Active THEN "Assessment already active"
  ELSE "ok"

\* the outcome of submitRiskProfile by the listed order of its checks
SubmitOutcome(sender, in) ==
  IF ~SubmissionOpen THEN "Assessment window not active"
  ELSE IF in[1] > 850 THEN "Invalid credit score"
  ELSE IF in[3] > 50 THEN "Invalid employment years"
  ELSE IF in[4] > 100 THEN "Invalid debt ratio"
  ELSE IF HasProfile(sender) THEN "Profile already submitted"
  ELSE "ok"

\* the error kind of startNewAssessment by the listed order
StartKind(sender) ==
  CASE sender # owner -> "AuthorizationError"
    [] sender = owner /\ ~InSubmissionHours(now) -> "TimingError"
    [] sender = owner /\ InSubmissionHours(now) /\ Active -> "StateError"
    [] OTHER -> "none"

\* the error kind of submitRiskProfile by the listed order
SubmitKind(sender, in) ==
  CASE ~SubmissionOpen -> "TimingError"
    [] SubmissionOpen /\ ~InRange(in) -> "RangeError"
    [] SubmissionOpen /\ InRange(in) /\ HasProfile(sender) -> "DuplicateSubmissionError"
    [] OTHER -> "none"

\* C30 (error precedence): startNewAssessment reports the AuthorizationError
\* before the TimingError before the StateError; submitRiskProfile reports
\* the TimingError before the RangeError of the credit score, then of the
\* employment years, then of the debt ratio, before the
\* DuplicateSubmissionError; each call reports the first check that fails:
\* no call by sender with input in ends otherwise than StartOutcome and
\* StartKind, SubmitOutcome and SubmitKind say.
C30_ErrorPrecedence ==
  [][/\ \A sender \in Addr :
          (/\ Called("startNewAssessment")
           /\ \/ lastCall'.result # StartOutcome(sender)
              \/ ~Failed(StartKind(sender))
           /\ startNewAssessment(sender)) => FALSE
     /\ (Called("submitRiskProfile") /\ now' = now) =>
          IF ~SubmissionOpen
            THEN /\ lastCall'.result = "Assessment window not active"
                 /\ Failed("TimingError")
            ELSE \A sender \in Addr, in \in SubmitInputs :
                   (/\ \/ lastCall'.result # SubmitOutcome(sender, in)
                       \/ ~Failed(SubmitKind(sender, in))
                    /\ submitRiskProfile(sender, in[1], in[2], in[3], in[4])) => FALSE]_vars

\* startNewAssessment by another principal, outside business hours, on an
\* active cycle: all three checks would fail and the first is reported
C30_Witness ==
  /\ lastCall = [op |-> "startNewAssessment", result |-> "Not authorized"]
  /\ ~InSubmissionHours(now)
  /\ Active
  /\ Len(Current.applicants) = 1

\* C31 (approval lookup): checkApprovalStatus(c, p) fails with "Assessment
\* not completed" exactly when cycle c is not completed and otherwise
\* returns the approval flag of p in c; for the current cycle, completed by
\* pause and not by a callback, it returns false for every participant.
C31_ApprovalLookup ==
  [][\A assessmentId \in LookupIds, applicant \in Addr :
       (Called("checkApprovalStatus")
          /\ checkApprovalStatus(assessmentId, applicant)) =>
         LET cycle == assessments[assessmentId] IN
         /\ (lastCall'.result = "Assessment not completed") <=>
              ~cycle.assessmentCompleted
         /\ cycle.assessmentCompleted =>
              /\ lastCall'.result = "ok"
              /\ returned' = cycle.approvedApplicants[applicant]
         /\ (cycle.assessmentCompleted /\ assessmentId = currentAssessmentId) =>
              returned' = FALSE
         /\ UNCHANGED <<contractVars, fheVars>>]_vars

\* the lookup returned true for a participant of cycle 1, completed by its
\* callback, while a lookup of the current cycle 2 would fail
C31_Witness ==
  /\ lastCall = [op |-> "checkApprovalStatus", result |-> "ok"]
  /\ returned = TRUE
  /\ currentAssessmentId = 2
  /\ ~Current.assessmentCompleted
  /\ \E p \in Addr : assessments[1].approvedApplicants[p]

\* C32 (owner triggers evaluation): processRiskAssessment succeeds only for
\* the owner; no call by another principal issues a decryption request.
C32_OwnerTriggersEvaluation ==
  [][\A sender \in Addr :
       (/\ lastCall' = [op |-> "processRiskAssessment", result |-> "ok"]
        /\ processRiskAssessment(sender)) =>
         /\ sender = owner
         /\ requestedHandles' # requestedHandles]_vars

\* C33 (history is complete): every cycle with an id below the current one
\* is completed; every cycle with an id above it is untouched: no threshold,
\* not completed, no participant, no stored profile, no approval.
C33_HistoryComplete ==
  \A id \in 1..MaxAssessmentId :
    /\ id < currentAssessmentId => assessments[id].assessmentCompleted
    /\ id > currentAssessmentId =>
         /\ ~assessments[id].thresholdSet
         /\ ~assessments[id].assessmentCompleted
         /\ assessments[id].applicants = <<>>
         /\ \A a \in Addr :
              /\ ~assessments[id].profiles[a].hasSubmitted
              /\ ~assessments[id].approvedApplicants[a]

\* cycle 1, with a participant, was completed by its callback and cycle 2
\* is started
C33_Witness ==
  /\ currentAssessmentId = 2
  /\ Active
  /\ assessments[1].assessmentCompleted
  /\ Len(assessments[1].applicants) = 1
  /\ assessments[1].finalRiskLevel = 255
  /\ assessments[3] = EmptyAssessment

\* the participants listed in the current cycle
Listed == {Current.applicants[i] : i \in 1..Len(Current.applicants)}

\* C34 (submitted flag agrees with the participant list): in the current
\* cycle a participant's submitted flag is set exactly when the participant
\* is in the list, and the length of the list is the number of participants
\* with the flag set.
C34_FlagAgreesWithList ==
  /\ \A a \in Addr : HasProfile(a) <=> a \in Listed
  /\ Len(Current.applicants) = Cardinality({a \in Addr : HasProfile(a)})

\* C35 (no completion of a never-started cycle): an accepted callback finds
\* the current cycle with its threshold set and not completed, and an
\* AssessmentStarted was emitted for the id it completes.
C35_CallbackCompletesStartedCycle ==
  [][(Succeeded /\ Called("processAssessmentResult")) =>
       /\ Current.thresholdSet
       /\ ~Current.assessmentCompleted
       /\ started[currentAssessmentId] >= 1]_vars

\* the requests that no accepted callback has answered
PendingRequests == {r \in 1..Len(requestedHandles) : fulfilled[r] = 0}

\* C36 (at most one pending decryption request): at most one request is
\* unanswered at any time.
C36_AtMostOnePendingRequest == Cardinality(PendingRequests) <= 1

\* C37 (no submission after evaluation is triggered): no submitRiskProfile
\* is accepted into a cycle for which a decryption request was issued.
C37_NoSubmissionAfterTrigger ==
  [][(Succeeded /\ Called("submitRiskProfile")) =>
       \A r \in 1..Len(requestAssessment) :
         requestAssessment[r] # currentAssessmentId]_vars

\* C38 (approvals only for submitters): in every cycle an approval flag is
\* set only for a participant who is in the cycle's list and has the
\* submitted flag set, and the count of an AssessmentCompleted event is at
\* most the length of the list of the cycle it names.
C38_ApprovalsOnlyForSubmitters ==
  /\ \A id \in 1..MaxAssessmentId, a \in Addr :
       assessments[id].approvedApplicants[a] =>
         /\ \E i \in 1..Len(assessments[id].applicants) :
              assessments[id].applicants[i] = a
         /\ assessments[id].profiles[a].hasSubmitted
  /\ \A i \in 1..Len(events) :
       events[i].name = "AssessmentCompleted" =>
         events[i].value <= Len(assessments[events[i].assessmentId].applicants)

\* the callback with threshold 255 approved the one participant of cycle 1
\* and not the deployer, who did not submit
C38_Witness ==
  /\ lastCall = [op |-> "processAssessmentResult", result |-> "ok"]
  /\ assessments[1].applicants = <<"alice">>
  /\ assessments[1].finalRiskLevel = 255
  /\ assessments[1].approvedApplicants["alice"]
  /\ ~assessments[1].approvedApplicants[Deployer]
  /\ events[1] = Event("AssessmentCompleted", 1, ZeroAddress, 1)

\* C39 (the current cycle carries no approvals): in every state no
\* participant has the approval flag set in the current cycle;
\* getApplicantStatus returns the submitted flag and the time of the
\* participant's profile in the current cycle and isApproved = false; a
\* checkApprovalStatus that returns true names a cycle before the current.
C39_CurrentCycleNoApprovals ==
  /\ [](\A a \in Addr : ~Current.approvedApplicants[a])
  /\ [][/\ \A applicant \in Addr :
             (Called("getApplicantStatus") /\ getApplicantStatus(applicant)) =>
               /\ lastCall'.result = "ok"
               /\ returned' = <<HasProfile(applicant),
                                Current.profiles[applicant].timestamp, FALSE>>
        /\ \A assessmentId \in LookupIds, applicant \in Addr :
             (/\ lastCall' = [op |-> "checkApprovalStatus", result |-> "ok"]
              /\ checkApprovalStatus(assessmentId, applicant)
              /\ returned') =>
               assessmentId < currentAssessmentId]_vars

\* the status of a participant was read in the current cycle 2, which
\* nobody has entered, while cycle 1 holds an approval
C39_Witness ==
  /\ lastCall = [op |-> "getApplicantStatus", result |-> "ok"]
  /\ returned = <<FALSE, 0, FALSE>>
  /\ currentAssessmentId = 2
  /\ assessments[1].assessmentCompleted
  /\ assessments[1].approvedApplicants["alice"]

\* a decryption request issued for cycle id waits for the oracle's answer
\* while id is the current cycle
Triggered(id) ==
  /\ currentAssessmentId = id
  /\ \E r \in PendingRequests : requestAssessment[r] = id

\* C40 (progress of an evaluated cycle): under the fair oracle, once
\* processRiskAssessment has succeeded for the current cycle and its request
\* is unanswered, eventually the cycle is completed and the current cycle id
\* is the next one, unless the cycle has been paused in between; invalid
\* callbacks, failed calls and further submissions do not prevent it.
C40_EvaluatedCycleProgress ==
  \A id \in 1..(MaxAssessmentId - 1) :
     Triggered(id) ~>
       \/ /\ assessments[id].assessmentCompleted
          /\ currentAssessmentId = id + 1
       \/ lastCall = [op |-> "pauseCurrentAssessment", result |-> "ok"]

\* the oracle's answer to the one request, issued for cycle 1 with one
\* participant listed, completed cycle 1 and made cycle 2 the current one
C40_Witness ==
  /\ lastCall = [op |-> "processAssessmentResult", result |-> "ok"]
  /\ requestAssessment = <<1>>
  /\ fulfilled[1] = 1
  /\ assessments[1].assessmentCompleted
  /\ Len(assessments[1].applicants) = 1
  /\ currentAssessmentId = 2

====
